---- MODULE Spec2Model ----
(***************************************************************************)
(* Model of the raw-device wipe tool (src/main.cpp, POSIX branch):         *)
(* main's command-line flow, SecureEraser::secureErase and                 *)
(* SecureEraser::verifyErase, with the device, its file offsets and the    *)
(* results of open/ioctl/lseek/write/read chosen by the environment.       *)
(*                                                                         *)
(* Bytes are integers.  0..255 are literal byte values, OLD_DATA stands    *)
(* for whatever the device held before the run, and 256 + k stands for     *)
(* the value of the k-th output drawn from the generator rng.              *)
(***************************************************************************)
EXTENDS Integers, Sequences, FiniteSets, TLC

\* ---------------------------------------------------------------- sizes
\* BLOCK_SIZE is 1024 * 1024 in the source; the model keeps the block
\* arithmetic and scales the unit down so that devices of 0 .. 2.5 blocks
\* and a device of VERIFY_BLOCKS blocks can be enumerated.
BLOCK_SIZE == 2
VERIFY_BLOCKS == 10
PROGRESS_EVERY == 100

\* blockCount is a uint64_t; the model keeps the wrap-around and scales the
\* width down (beyond every count a run with a bounded number of short
\* writes reaches).
COUNT_MOD == 256

MaxDeviceSize == 5
MaxShortWrites == 1
SystemDiskSize == 3
MaxGenerateCalls == 3
MaxIterations == 2
MaxLines == 5
MaxFreeSpace == 3

\* The observers that count calls stop counting at HCap.
HCap == 128

Sat(n) == IF n < HCap THEN n ELSE HCap

OLD_DATA == 0 - 1

\* What the other process writes: some byte content of its own.
PEER_DATA == 0 - 2

Min(a, b) == IF a < b THEN a ELSE b

\* ---------------------------------------------------------------- enum
WipePattern == {"ZEROS", "ONES", "RANDOM", "DOD_3PASS", "GUTMANN_35"}

\* ------------------------------------------------------- the environment
\* Sizes of the device under test: every size up to 2.5 blocks, and one
\* device exactly as long as the verifier's sample.
DeviceSizes == (0 .. MaxDeviceSize) \cup {VERIFY_BLOCKS * BLOCK_SIZE}

\* What listDevices finds: a mounted system disk and the device under test.
ListDevices(sz) ==
    << [path |-> "/dev/sda", name |-> "sda", size |-> SystemDiskSize,
        isRemovable |-> FALSE, isMounted |-> TRUE],
       [path |-> "/dev/sdb", name |-> "sdb", size |-> sz,
        isRemovable |-> TRUE, isMounted |-> FALSE] >>

\* Size the block layer reports for a device node.
SizeOfNode(path, sz) == IF path = "/dev/sda" THEN SystemDiskSize ELSE sz

NodeExists(path) == path \in {"/dev/sda", "/dev/sdb"}

\* ------------------------------------------------------ argument parsing
ToLower(s) ==
    CASE s = "ZEROS" -> "zeros"
      [] s = "Dod3"  -> "dod3"
      [] OTHER       -> s

PatternOf(s) ==
    CASE s = "zeros"     -> "ZEROS"
      [] s = "ones"      -> "ONES"
      [] s = "random"    -> "RANDOM"
      [] s = "dod3"      -> "DOD_3PASS"
      [] s = "gutmann35" -> "GUTMANN_35"
      [] OTHER           -> "invalid"

\* The argument loop of main.  argv holds argv[1..]; st.ret = -1 while the
\* loop has not returned.
RECURSIVE ParseArgs(_, _, _)
ParseArgs(argv, i, st) ==
    IF i > Len(argv) THEN st
    ELSE LET arg == argv[i] IN
         IF arg \in {"-l", "--list"}
         THEN ParseArgs(argv, i + 1, [st EXCEPT !.listDevices = TRUE])
         ELSE IF arg \in {"-d", "--device"} /\ i + 1 <= Len(argv)
         THEN ParseArgs(argv, i + 2, [st EXCEPT !.devicePath = argv[i + 1]])
         ELSE IF arg \in {"-p", "--pattern"} /\ i + 1 <= Len(argv)
         THEN LET patternStr == ToLower(argv[i + 1]) IN
              IF PatternOf(patternStr) = "invalid"
              THEN [st EXCEPT !.ret = 1, !.err = "Invalid pattern"]
              ELSE ParseArgs(argv, i + 2,
                             [st EXCEPT !.pattern = PatternOf(patternStr)])
         ELSE IF arg \in {"-v", "--verify"}
         THEN ParseArgs(argv, i + 1, [st EXCEPT !.verify = TRUE])
         ELSE IF arg \in {"-h", "--help"}
         THEN [st EXCEPT !.ret = 0]
         ELSE [st EXCEPT !.ret = 1, !.err = "Unknown argument"]

ParseStart ==
    [devicePath |-> "", pattern |-> "ZEROS", verify |-> FALSE,
     listDevices |-> FALSE, ret |-> 0 - 1, err |-> ""]

\* Command lines the model runs main with.
ArgvSet ==
    { << >>,
      << "-h" >>,
      << "--list" >>,
      << "-v" >>,
      << "-d" >>,
      << "--bogus" >>,
      << "-d", "/dev/sdb", "-p", "bogus" >>,
      << "-d", "/dev/sdx" >>,
      << "-d", "/dev/sda", "-p", "dod3" >>,
      << "-d", "/dev/sdb" >>,
      << "-d", "/dev/sdb", "-v" >>,
      << "-d", "/dev/sdb", "-p", "ZEROS", "-v" >>,
      << "-d", "/dev/sdb", "-p", "ones" >>,
      << "-d", "/dev/sdb", "-p", "ones", "-v" >>,
      << "-d", "/dev/sdb", "-p", "random" >>,
      << "-d", "/dev/sdb", "-p", "random", "-v" >>,
      << "--device", "/dev/sdb", "--pattern", "Dod3", "--verify" >>,
      << "-d", "/dev/sdb", "-p", "dod3" >>,
      << "-d", "/dev/sdb", "-p", "gutmann35" >>,
      << "-d", "/dev/sdb", "-p", "gutmann35", "-v" >> }

\* Direct calls of the public method secureErase (no main in front).
ApiCalls ==
    [devicePath : {"/dev/sda", "/dev/sdb", "/dev/sdx"},
     pattern    : {"ZEROS", "DOD_3PASS"},
     verify     : BOOLEAN,
     callback   : {FALSE}]

\* Characters the operator may type at the prompt.
Responses == {"y", "Y", "n", "N", "q"}

\* What std::cin delivers at the prompt: a typed character, or nothing
\* (end of input).
StdinInputs == Responses \cup {"EOF"}

\* Lines 436-437: char response; std::cin >> response.  A failed extraction
\* stores nothing, so response keeps its uninitialized value: any character.
ResponseRead(input) == IF input = "EOF" THEN Responses ELSE {input}

\* ---------------------------------------------------- pattern generation
\* Variant of Fill that leaves the last byte of the buffer zero.
FillButLast(b) == [k \in 1 .. BLOCK_SIZE |-> IF k = BLOCK_SIZE THEN 0 ELSE b]

\* std::vector<uint8_t>(BLOCK_SIZE, b): a buffer of BLOCK_SIZE bytes b.
Fill(b) == [k \in 1 .. BLOCK_SIZE |-> b]

\* Variant of RandomBuffer that restarts the generator for every buffer.
RandomBufferReplay(r) == [k \in 1 .. BLOCK_SIZE |-> 256 + k]

\* A buffer filled byte by byte from the generator, r outputs already drawn.
RandomBuffer(r) == [k \in 1 .. BLOCK_SIZE |-> 256 + r + k]

\* Variant of GeneratePatterns whose reduced Gutmann scheme drops its
\* last fixed pattern.
GeneratePatternsShort(p, r) ==
    CASE p = "ZEROS"  -> [patterns |-> << Fill(0) >>, rng |-> r]
      [] p = "ONES"   -> [patterns |-> << Fill(255) >>, rng |-> r]
      [] p = "RANDOM" -> [patterns |-> << RandomBuffer(r) >>,
                          rng |-> r + BLOCK_SIZE]
      [] p = "DOD_3PASS" ->
             [patterns |-> << Fill(0), Fill(255), RandomBuffer(r) >>,
              rng |-> r + BLOCK_SIZE]
      [] p = "GUTMANN_35" ->
             [patterns |-> << RandomBuffer(r),
                              RandomBuffer(r + BLOCK_SIZE),
                              RandomBuffer(r + 2 * BLOCK_SIZE),
                              RandomBuffer(r + 3 * BLOCK_SIZE),
                              Fill(85), Fill(170), Fill(146), Fill(73) >>,
              rng |-> r + 4 * BLOCK_SIZE]

\* generatePatterns: the buffers of a scheme and the generator position
\* after producing them.
GeneratePatterns(p, r) ==
    CASE p = "ZEROS"  -> [patterns |-> << Fill(0) >>, rng |-> r]
      [] p = "ONES"   -> [patterns |-> << Fill(255) >>, rng |-> r]
      [] p = "RANDOM" -> [patterns |-> << RandomBuffer(r) >>,
                          rng |-> r + BLOCK_SIZE]
      [] p = "DOD_3PASS" ->
             [patterns |-> << Fill(0), Fill(255), RandomBuffer(r) >>,
              rng |-> r + BLOCK_SIZE]
      [] p = "GUTMANN_35" ->
             [patterns |-> << RandomBuffer(r),
                              RandomBuffer(r + BLOCK_SIZE),
                              RandomBuffer(r + 2 * BLOCK_SIZE),
                              RandomBuffer(r + 3 * BLOCK_SIZE),
                              Fill(85), Fill(170), Fill(146), Fill(73),
                              Fill(36) >>,
              rng |-> r + 4 * BLOCK_SIZE]

\* The generator outputs that ended up in the buffers ps.
DrawsIn(ps) ==
    {ps[i][k] : i \in 1 .. Len(ps), k \in 1 .. BLOCK_SIZE} \ (0 .. 255)

\* ------------------------------------------------------------------ state
VARIABLES
    pc,            \* position in main / secureErase / verifyErase
    caller,        \* "main" or "api": who called secureErase
    devSize,       \* true size of /dev/sdb
    disk,          \* bytes of the device node that was opened
    devicePath, pattern, verify, listDevices,   \* main's locals / arguments
    hasCallback,   \* progressCallback is non-null
    exitCode,      \* main's return value, -1 while running
    fd,            \* the read-write descriptor: "none", "open", "closed"
    pos,           \* file offset of fd
    deviceSize, patterns, rng, totalBlocks,
    pass, bytesWritten, blockCount,
    result,        \* secureErase's return value: "none", "true", "false"
    vfd,           \* verifyErase's descriptor: "none", "open", "closed"
    vpos,          \* file offset of vfd
    vi,            \* verifyErase's loop index i
    verified,      \* verifyErase's local / return value
    out,           \* error and warning lines written to cerr / cout
    peer,          \* another process running secureErase on /dev/sdb
    ow,            \* overwriteDevice (src/src/overwrite.cpp): its locals,
                   \* the temporary files on the volume, what it has done
    dl,            \* system_connected_drives (src/devicelist.h): the
                   \* listing file, the index, the static array
    progress,      \* progressCallback: number of calls, the last value
                   \* handed over, the pass and blockCount it was for,
                   \* whether each value was above the one before
    h              \* observers of the run (not read by the program)

mainVars == << devicePath, pattern, verify, listDevices, hasCallback >>
engVars  == << deviceSize, patterns, rng, totalBlocks, pass, bytesWritten,
               blockCount >>
verVars  == << vfd, vpos, vi, verified >>
vars == << pc, caller, devSize, disk, mainVars, exitCode, fd, pos, engVars,
           result, verVars, out, progress, h, peer, ow, dl >>

\* overwriteDevice before it is called.
OwInit ==
    [pc |-> "idle",
     iterations |-> 0, mode |-> "ZERO",   \* the arguments
     iter |-> 0, fillChar |-> "0", freeSpace |-> 0,
     blockCount |-> 0,        \* kept modulo FLUSH_EVERY, all that is read
     outFile |-> "none",      \* the stream: "good", "failed" or "closed"
     result |-> "none",
     files |-> {},            \* iterations whose temporary file exists
     created |-> << >>,       \* iterations in the order their file was made
     wrote |-> {},            \* << iteration, character >> of blocks written
     filled |-> {},           \* iterations that wrote until a reading of
                              \* the free space was at most one block
     writeFailed |-> {},      \* iterations in which a write failed
     spaceFailed |-> {},      \* iterations in which the space query failed
     leftBehind |-> FALSE,    \* an iteration began while a file remained
     ended |-> 0]             \* iterations carried through to their end

\* src/devicelist.h line 18: static string storagedeviceslist[4].
ARRAY_LEN == 4

\* system_connected_drives before it is called.
DlInit ==
    [pc |-> "idle",
     listing |-> << >>,       \* the lines of storage-device-list
     file |-> << >>,          \* those not yet read
     i |-> 0,
     storagedeviceslist |-> [k \in 0 .. ARRAY_LEN - 1 |-> ""],
     stored |-> 0,            \* lines stored so far
     pastEnd |-> FALSE]       \* a store went to an index outside 0 .. 3

HInit ==
    [rwOpens |-> 0,        \* successful read-write opens
     closes |-> 0,         \* close(fd) calls
     closedNotOpen |-> FALSE, \* close(fd) while fd was not open
     useAfterClose |-> FALSE, \* ioctl / lseek / write on a closed fd
     seeks |-> 0,          \* lseek calls
     writes |-> 0,         \* write calls of the run
     cover |-> << >>,      \* per byte: times written in the current pass
     ascending |-> TRUE,   \* each write began where the pass had got to
     pastEnd |-> FALSE,    \* a write asked for bytes beyond deviceSize
     shortWrites |-> 0,    \* writes that returned less than requested
     afterShort |-> 0,     \* writes issued after a short write
     ioFailed |-> FALSE,   \* a write or lseek has failed
     opsAfterFail |-> 0,   \* lseek / write calls issued after that
     started |-> << >>,    \* pass indices in the order they began
     finished |-> << >>,   \* pass indices in the order their loop ended
     orderOK |-> TRUE,     \* each write belonged to the pass after the
                           \* last finished one
     verifyCalls |-> 0,    \* calls of verifyErase
     verifyEarly |-> FALSE,\* verifyErase called before the last pass ended
                           \* or without verify
     lastReq |-> 0,        \* size asked for by the last write
     lastOff |-> 0,        \* file offset of the last write
     lastRet |-> 0,        \* what the last write returned
     roOpens |-> 0,        \* successful read-only opens
     roCloses |-> 0,       \* close calls on the read-only descriptor
     roOpenFailed |-> FALSE, \* the read-only open failed
     reads |-> 0,          \* read calls of verifyErase
     readErrors |-> 0,     \* read calls that returned an error
     readsInOrder |-> TRUE, \* each read began where the previous ended
     openFailed |-> FALSE, \* the read-write open returned -1
     sizeQueries |-> 0,    \* ioctl(BLKGETSIZE64) calls
     sizeQueryFailed |-> FALSE, \* the ioctl returned -1
     exitAt |-> "none",    \* the return statement main left through
     gate |-> << >>,       \* main's checks passed before the wipe, in order
     userConfirmed |-> FALSE, \* the operator typed 'y' or 'Y' at the prompt
     genCalls |-> 0,       \* direct calls of generatePatterns
     drawn |-> {},         \* generator outputs used by those calls
     replayed |-> FALSE]   \* a call used an output an earlier call had used

InitOf(sizes) ==
    /\ pc = "start"
    /\ caller = "none"
    /\ devSize \in sizes
    /\ disk = << >>
    /\ devicePath = "" /\ pattern = "ZEROS" /\ verify = FALSE
    /\ listDevices = FALSE /\ hasCallback = FALSE
    /\ exitCode = 0 - 1
    /\ fd = "none" /\ pos = 0
    /\ deviceSize = 0 /\ patterns = << >> /\ rng = 0 /\ totalBlocks = 0
    /\ pass = 0 /\ bytesWritten = 0 /\ blockCount = 0
    /\ result = "none"
    /\ vfd = "none" /\ vpos = 0 /\ vi = 0 /\ verified = TRUE
    /\ out = << >>
    /\ progress = [calls |-> 0, last |-> << 0, 1 >>, at |-> << 0, 0 >>,
                   increasing |-> TRUE]
    /\ h = HInit
    /\ peer = [fd |-> "closed", pos |-> 0, ran |-> FALSE,
               interleaved |-> FALSE]
    /\ ow = OwInit
    /\ dl = DlInit

Init == InitOf(DeviceSizes)

\* ------------------------------------------------------------------ main
\* main, lines 460-505: the argc test and the argument loop.
MainParseArgsOf(argvs) ==
    /\ pc = "start"
    /\ \E argv \in argvs :
         LET st == ParseArgs(argv, 1, ParseStart) IN
         /\ caller' = "main"
         /\ IF Len(argv) = 0
            THEN /\ exitCode' = 1 /\ pc' = "exit"
                 /\ out' = out
                 /\ h' = [h EXCEPT !.exitAt = "usage"]
                 /\ UNCHANGED mainVars
            ELSE /\ devicePath' = st.devicePath
                 /\ pattern' = st.pattern
                 /\ verify' = st.verify
                 /\ listDevices' = st.listDevices
                 /\ hasCallback' = hasCallback
                 /\ IF st.ret >= 0
                    THEN /\ exitCode' = st.ret /\ pc' = "exit"
                         /\ out' = IF st.err = "" THEN out
                                   ELSE Append(out, st.err)
                         /\ h' = [h EXCEPT !.exitAt =
                                     IF st.err = "" THEN "help" ELSE st.err]
                    ELSE /\ exitCode' = exitCode /\ pc' = "select"
                         /\ out' = out
                         /\ h' = h
    /\ UNCHANGED << devSize, disk, fd, pos, engVars, result, verVars,
                    progress >>
    /\ UNCHANGED << peer, ow, dl >>

MainParseArgs == MainParseArgsOf(ArgvSet)

\* The loop of main that looks devicePath up in the device list.
RECURSIVE FindDevice(_, _, _)
FindDevice(devices, path, k) ==
    IF k > Len(devices) THEN 0
    ELSE IF devices[k].path = path THEN k
    ELSE FindDevice(devices, path, k + 1)

\* main, lines 507-538: list, look the device up, refuse a mounted one.
MainSelectDevice ==
    /\ pc = "select"
    /\ LET devices == ListDevices(devSize)
           target == FindDevice(devices, devicePath, 1) IN
       IF listDevices
       THEN /\ exitCode' = 0 /\ pc' = "exit" /\ out' = out
            /\ h' = [h EXCEPT !.exitAt = "list"]
       ELSE IF devicePath = ""
       THEN /\ exitCode' = 1 /\ pc' = "exit"
            /\ out' = Append(out, "Error: Device path required")
            /\ h' = [h EXCEPT !.exitAt = "nopath"]
       ELSE IF target = 0
       THEN /\ exitCode' = 1 /\ pc' = "exit"
            /\ out' = Append(out, "Error: Device not found")
            /\ h' = [h EXCEPT !.exitAt = "notfound"]
       ELSE IF devices[target].isMounted
       THEN /\ exitCode' = 1 /\ pc' = "exit"
            /\ out' = Append(out, "Error: Device is mounted")
            /\ h' = [h EXCEPT !.exitAt = "mounted", !.gate = << "found" >>]
       ELSE /\ exitCode' = exitCode /\ pc' = "confirm" /\ out' = out
            /\ h' = [h EXCEPT !.gate = << "found", "unmounted" >>]
    /\ UNCHANGED << caller, devSize, disk, mainVars, fd, pos, engVars,
                    result, verVars, progress >>
    /\ UNCHANGED << peer, ow, dl >>

\* confirmAction: only 'y' and 'Y' confirm.
confirmAction(response) == response \in {"y", "Y"}

\* main, lines 540-556: the prompt, then the call of secureErase with
\* main's progress callback.
MainConfirm ==
    /\ pc = "confirm"
    /\ \E input \in StdinInputs : \E response \in ResponseRead(input) :
         LET h0 == [h EXCEPT !.userConfirmed = input \in {"y", "Y"}] IN
         IF ~ confirmAction(response)
         THEN /\ exitCode' = 0 /\ pc' = "exit"
              /\ out' = Append(out, "Operation cancelled.")
              /\ hasCallback' = hasCallback
              /\ h' = [h0 EXCEPT !.exitAt = "cancel"]
         ELSE /\ exitCode' = exitCode /\ pc' = "open" /\ out' = out
              /\ hasCallback' = TRUE
              /\ h' = [h0 EXCEPT !.gate = Append(@, "confirmed")]
    /\ UNCHANGED << caller, devSize, disk, devicePath, pattern, verify,
                    listDevices, fd, pos, engVars, result, verVars,
                    progress >>
    /\ UNCHANGED << peer, ow, dl >>

\* A caller other than main invoking the public method directly.
ApiCall ==
    /\ pc = "start"
    /\ \E c \in ApiCalls :
         /\ devicePath' = c.devicePath
         /\ pattern' = c.pattern
         /\ verify' = c.verify
         /\ hasCallback' = c.callback
    /\ caller' = "api"
    /\ pc' = "open"
    /\ UNCHANGED << devSize, disk, listDevices, exitCode, fd, pos, engVars,
                    result, verVars, out, progress, h >>
    /\ UNCHANGED << peer, ow, dl >>

\* Variant of ExitCodeAfterErase that reports success whatever happened.
ExitCodeAlwaysZero(res) == 0

\* Lines 556-561: what main returns after secureErase returned res.
ExitCodeAfterErase(res) == IF res = "false" THEN 1 ELSE 0

\* main, lines 556-561: the exit code after secureErase returned.
MainAfterErase ==
    /\ pc = "ret"
    /\ caller = "main"
    /\ exitCode' = ExitCodeAfterErase(result)
    /\ out' = IF result = "false" THEN Append(out, "Secure erase failed!")
                                  ELSE out
    /\ pc' = "exit"
    /\ h' = [h EXCEPT !.exitAt = "erase"]
    /\ UNCHANGED << caller, devSize, disk, mainVars, fd, pos, engVars,
                    result, verVars, progress >>
    /\ UNCHANGED << peer, ow, dl >>

\* ------------------------------------------------------------ secureErase
Max(a, b) == IF a > b THEN a ELSE b

\* Where control goes when secureErase returns.
ReturnPc == IF caller = "main" THEN "ret" ELSE "exit"

\* Variant of CloseOnExit that forgets the close after a failed seek.
CloseOnExitNoSeek(site) == site \in {"ioctl", "write", "end"}

\* The return paths of secureErase that call close(fd) before returning:
\* the failed size query, the failed seek, the failed write and the normal
\* end.  The failed open returns without a descriptor to close.
CloseOnExit(site) == site \in {"ioctl", "seek", "write", "end"}

\* The observers after secureErase leaves through the given return path.
HLeave(hh, site) ==
    IF CloseOnExit(site)
    THEN [hh EXCEPT !.closes = @ + 1,
                    !.closedNotOpen = @ \/ fd # "open"]
    ELSE hh

FdLeave(site) == IF CloseOnExit(site) THEN "closed" ELSE fd

\* Variant of ErrorMessage that reports a failed size query as a failed
\* open.
ErrorMessageSizeAsOpen(site) ==
    CASE site = "open" -> "Error: Cannot open device"
      [] site = "ioctl" -> "Error: Cannot open device"
      [] site = "seek" -> "Error: Cannot seek to beginning"
      [] site = "write" -> "Error writing to device"

\* The line secureErase prints before it returns false (lines 256, 264,
\* 289, 315).
ErrorMessage(site) ==
    CASE site = "open" -> "Error: Cannot open device"
      [] site = "ioctl" -> "Error: Cannot get device size"
      [] site = "seek" -> "Error: Cannot seek to beginning"
      [] site = "write" -> "Error writing to device"

\* Lines 254-259: open(devicePath, O_RDWR | O_SYNC).
Open ==
    /\ pc = "open"
    /\ \E ok \in BOOLEAN :
         /\ ok => NodeExists(devicePath)
         /\ IF ok
            THEN /\ fd' = "open"
                 /\ disk' = [k \in 1 .. SizeOfNode(devicePath, devSize)
                               |-> OLD_DATA]
                 /\ h' = [h EXCEPT !.rwOpens = @ + 1]
                 /\ pc' = "ioctl"
                 /\ UNCHANGED << out, result >>
            ELSE /\ out' = Append(out, ErrorMessage("open"))
                 /\ result' = "false"
                 /\ fd' = FdLeave("open")
                 /\ h' = HLeave([h EXCEPT !.openFailed = TRUE], "open")
                 /\ pc' = ReturnPc
                 /\ disk' = disk
    /\ pos' = 0
    /\ UNCHANGED << caller, devSize, mainVars, exitCode, engVars, verVars,
                    progress >>
    /\ UNCHANGED << peer, ow, dl >>

\* The test of the for loop over the passes (line 275).
LoopPc(p, n) == IF p < n THEN "seek" ELSE "end"

\* Variant of SizeQueryFailed that does not look at the result.
SizeQueryFailedIgnored(rc) == FALSE

\* Line 263: the test of what ioctl(fd, BLKGETSIZE64, &deviceSize) returned.
SizeQueryFailed(rc) == rc < 0

\* Lines 262-275: the size query, generatePatterns, totalBlocks.
Ioctl ==
    /\ pc = "ioctl"
    /\ \E rc \in {0, 0 - 1} :
         LET h0 == [h EXCEPT !.useAfterClose = @ \/ fd # "open",
                             !.sizeQueries = @ + 1,
                             !.sizeQueryFailed = @ \/ rc < 0] IN
         IF ~ SizeQueryFailed(rc)
         THEN LET g == GeneratePatterns(pattern, rng) IN
              /\ deviceSize' = SizeOfNode(devicePath, devSize)
              /\ patterns' = g.patterns
              /\ rng' = g.rng
              /\ totalBlocks' = (deviceSize' + BLOCK_SIZE - 1) \div BLOCK_SIZE
              /\ pass' = 0
              /\ pc' = LoopPc(0, Len(g.patterns))
              /\ h' = h0
              /\ UNCHANGED << out, result, fd >>
         ELSE /\ out' = Append(out, ErrorMessage("ioctl"))
              /\ result' = "false"
              /\ fd' = FdLeave("ioctl")
              /\ h' = HLeave(h0, "ioctl")
              /\ pc' = ReturnPc
              /\ UNCHANGED << deviceSize, patterns, rng, totalBlocks, pass >>
    /\ UNCHANGED << caller, devSize, disk, mainVars, exitCode, pos,
                    bytesWritten, blockCount, verVars, progress >>
    /\ UNCHANGED << peer, ow, dl >>

\* The test of the while loop over the blocks (line 298).
WhilePc(bw, ds) == IF bw < ds THEN "write" ELSE "passEnd"

\* Lines 276-298: lseek(fd, 0, SEEK_SET) and the start of the pass.
Seek ==
    /\ pc = "seek"
    /\ LET h1 == [h EXCEPT !.seeks = @ + 1,
                           !.useAfterClose = @ \/ fd # "open",
                           !.opsAfterFail =
                               @ + (IF h.ioFailed THEN 1 ELSE 0)] IN
       \E ok \in BOOLEAN :
         IF ok
         THEN /\ pos' = 0
              /\ bytesWritten' = 0
              /\ blockCount' = 0
              /\ pc' = WhilePc(0, deviceSize)
              /\ h' = [h1 EXCEPT !.started = Append(@, pass),
                                 !.cover = [k \in 1 .. Len(disk) |-> 0]]
              /\ UNCHANGED << out, result, fd >>
         ELSE /\ out' = Append(out, ErrorMessage("seek"))
              /\ result' = "false"
              /\ fd' = FdLeave("seek")
              /\ h' = HLeave([h1 EXCEPT !.ioFailed = TRUE], "seek")
              /\ pc' = ReturnPc
              /\ UNCHANGED << pos, bytesWritten, blockCount >>
    /\ UNCHANGED << caller, devSize, disk, mainVars, exitCode, deviceSize,
                    patterns, rng, totalBlocks, pass, verVars, progress >>
    /\ UNCHANGED << peer, ow, dl >>

\* Variant of WriteSize without the truncation of the last chunk.
WriteSizeWholeBlock(ds, bw) == BLOCK_SIZE

\* Line 299: the size of the next request.
WriteSize(ds, bw) == Min(BLOCK_SIZE, ds - bw)

\* Variant of WriteFailed that lets an error through.
WriteFailedIgnored(written) == FALSE

\* Line 314: the test for a failed write.
WriteFailed(written) == written < 0

\* Variant of Advance that counts the bytes asked for.
AdvanceByRequest(bw, written, writeSize) == bw + writeSize

\* Line 320: bytesWritten += written.
Advance(bw, written, writeSize) == bw + written

\* Variant of ProgressDue that reports every block.
ProgressDueEveryBlock(cb, bc) == cb

\* Line 326: the cadence of the progress callback.
ProgressDue(cb, bc) == cb /\ bc % PROGRESS_EVERY = 0

\* Lines 327-328, as numerator and denominator of the value times 100.
ProgressValue(p, tb, bc, n) == << (p * tb + bc) * 100, n * tb >>

\* Lines 298-338: one iteration of the while loop.  The device transfers
\* written bytes at the file offset pos, or fails with -1; it returns less
\* than was asked for at most budget times in a run.
WriteOf(budget) ==
    /\ pc = "write"
    /\ LET writeSize == WriteSize(deviceSize, bytesWritten)
           room == Max(0, Len(disk) - pos)
           h1 == [h EXCEPT
                    !.writes = Sat(@ + 1),
                    !.useAfterClose = @ \/ fd # "open",
                    !.pastEnd = @ \/ pos + writeSize > deviceSize,
                    !.lastReq = writeSize,
                    !.lastOff = pos,
                    !.afterShort =
                        Sat(@ + (IF h.shortWrites > 0 THEN 1 ELSE 0)),
                    !.opsAfterFail = @ + (IF h.ioFailed THEN 1 ELSE 0),
                    !.orderOK = @ /\ Len(h.finished) = pass
                                  /\ Len(h.started) = pass + 1] IN
       \E written \in {0 - 1} \cup (0 .. Min(writeSize, room)) :
         /\ (written >= 0 /\ written < writeSize)
               => h.shortWrites < budget
         /\ IF WriteFailed(written)
            THEN /\ out' = Append(out, ErrorMessage("write"))
                 /\ result' = "false"
                 /\ fd' = FdLeave("write")
                 /\ h' = HLeave([h1 EXCEPT !.ioFailed = TRUE,
                                           !.lastRet = written], "write")
                 /\ pc' = ReturnPc
                 /\ UNCHANGED << disk, pos, bytesWritten, blockCount,
                                 progress >>
            ELSE /\ disk' = [k \in 1 .. Len(disk) |->
                               IF pos < k /\ k <= pos + written
                               THEN patterns[pass + 1][k - pos]
                               ELSE disk[k]]
                 /\ pos' = pos + written
                 /\ bytesWritten' = Advance(bytesWritten, written, writeSize)
                 /\ blockCount' = (blockCount + 1) % COUNT_MOD
                 /\ progress' =
                      IF ProgressDue(hasCallback, blockCount')
                      THEN LET v == ProgressValue(pass, totalBlocks,
                                                  blockCount',
                                                  Len(patterns))
                           IN  [calls |-> Sat(progress.calls + 1),
                                last |-> v,
                                at |-> << pass, blockCount' >>,
                                increasing |->
                                    /\ progress.increasing
                                    /\ \/ progress.calls = 0
                                       \/ v[1] * progress.last[2] >
                                              progress.last[1] * v[2]]
                      ELSE progress
                 /\ pc' = WhilePc(bytesWritten', deviceSize)
                 /\ h' = [h1 EXCEPT
                            !.lastRet = written,
                            !.ioFailed = @ \/ written < 0,
                            !.shortWrites =
                                Sat(@ + (IF written < writeSize THEN 1
                                                                ELSE 0)),
                            !.ascending =
                                @ /\ \A k \in 1 .. Len(disk) :
                                       IF k <= pos THEN h.cover[k] >= 1
                                                   ELSE h.cover[k] = 0,
                            !.cover = [k \in 1 .. Len(disk) |->
                                         IF pos < k /\ k <= pos + written
                                         THEN h.cover[k] + 1
                                         ELSE h.cover[k]]]
                 /\ UNCHANGED << out, result, fd >>
    /\ UNCHANGED << caller, devSize, mainVars, exitCode, deviceSize,
                    patterns, rng, totalBlocks, pass, verVars >>
    /\ UNCHANGED << peer, ow, dl >>

Write == WriteOf(MaxShortWrites)

\* Variant of VerifyDue that verifies after every pass.
VerifyDueEveryPass(v, p, n) == v

\* Line 343: verification is due after the last pass when asked for.
VerifyDue(v, p, n) == v /\ p = n - 1

\* Lines 340-349: the end of a pass; the call of verifyErase or ++pass.
PassEnd ==
    /\ pc = "passEnd"
    /\ IF VerifyDue(verify, pass, Len(patterns))
       THEN /\ pc' = "ve_open"
            /\ pass' = pass
            /\ h' = [h EXCEPT
                       !.finished = Append(@, pass),
                       !.verifyCalls = @ + 1,
                       !.verifyEarly =
                           @ \/ ~ verify
                             \/ Len(h.finished) + 1 # Len(patterns)]
       ELSE /\ pass' = pass + 1
            /\ pc' = LoopPc(pass + 1, Len(patterns))
            /\ h' = [h EXCEPT !.finished = Append(@, pass)]
    /\ UNCHANGED << caller, devSize, disk, mainVars, exitCode, fd, pos,
                    deviceSize, patterns, rng, totalBlocks, bytesWritten,
                    blockCount, result, verVars, out, progress >>
    /\ UNCHANGED << peer, ow, dl >>

\* Line 345: the warning is printed when verifyErase returned false.
WarnDue(v) == ~ v

\* Lines 345-349: back from verifyErase: the warning, then ++pass.
AfterVerify ==
    /\ pc = "ve_ret"
    /\ out' = IF WarnDue(verified)
              THEN Append(out, "Warning: Verification failed!")
              ELSE out
    /\ pass' = pass + 1
    /\ pc' = LoopPc(pass + 1, Len(patterns))
    /\ UNCHANGED << caller, devSize, disk, mainVars, exitCode, fd, pos,
                    deviceSize, patterns, rng, totalBlocks, bytesWritten,
                    blockCount, result, verVars, progress, h >>
    /\ UNCHANGED << peer, ow, dl >>

\* Variant of EndResult that makes a failed verification fatal.
EndResultStrict(v) == IF v THEN "true" ELSE "false"

\* Line 358: secureErase returns true after the passes, whatever
\* verifyErase returned.
EndResult(v) == "true"

\* Lines 351-358: close(fd) and the successful return.
End ==
    /\ pc = "end"
    /\ fd' = FdLeave("end")
    /\ h' = HLeave(h, "end")
    /\ result' = EndResult(verified)
    /\ pc' = ReturnPc
    /\ UNCHANGED << caller, devSize, disk, mainVars, exitCode, pos, engVars,
                    verVars, out, progress >>
    /\ UNCHANGED << peer, ow, dl >>

\* ------------------------------------------------------------ verifyErase
\* Lines 372-379: open(devicePath, O_RDONLY).
VeOpen ==
    /\ pc = "ve_open"
    /\ \E ok \in BOOLEAN :
         IF ok
         THEN /\ vfd' = "open" /\ vpos' = 0 /\ vi' = 0 /\ verified' = TRUE
              /\ pc' = IF 0 < VERIFY_BLOCKS THEN "ve_read" ELSE "ve_close"
              /\ h' = [h EXCEPT !.roOpens = @ + 1]
         ELSE /\ verified' = FALSE
              /\ pc' = "ve_ret"
              /\ h' = [h EXCEPT !.roOpenFailed = TRUE]
              /\ UNCHANGED << vfd, vpos, vi >>
    /\ UNCHANGED << caller, devSize, disk, mainVars, exitCode, fd, pos,
                    engVars, result, out, progress >>
    /\ UNCHANGED << peer, ow, dl >>

\* The bytes read(vfd, BLOCK_SIZE) delivers at offset p.
ReadBlock(d, p) ==
    [k \in 1 .. Min(BLOCK_SIZE, Max(0, Len(d) - p)) |-> d[p + k]]

\* std::equal over the whole read buffer against the expected pattern.
BlockEqual(buf, expected) ==
    \A k \in 1 .. BLOCK_SIZE : buf[k] = expected[k]

\* Variant of BreakPc that returns straight from a failed read.
BreakPcNoClose(why) == IF why = "read" THEN "ve_ret" ELSE "ve_close"

\* Lines 391-400: both breaks of the sampling loop lead to the close of
\* line 406.
BreakPc(why) == "ve_close"

\* Lines 382-401: one iteration of the sampling loop.
VeRead ==
    /\ pc = "ve_read"
    /\ \E ok \in BOOLEAN :
         LET buf == ReadBlock(disk, vpos)
             bytesRead == IF ok THEN Len(buf) ELSE 0 - 1 IN
         /\ vpos' = IF ok THEN vpos + Len(buf) ELSE vpos
         /\ IF bytesRead # BLOCK_SIZE
            THEN /\ verified' = FALSE /\ vi' = vi /\ pc' = BreakPc("read")
            ELSE IF ~ BlockEqual(buf, patterns[pass + 1])
            THEN /\ verified' = FALSE /\ vi' = vi
                 /\ pc' = BreakPc("mismatch")
            ELSE /\ verified' = verified
                 /\ vi' = vi + 1
                 /\ pc' = IF vi + 1 < VERIFY_BLOCKS THEN "ve_read"
                                                    ELSE "ve_close"
         /\ h' = [h EXCEPT
                    !.reads = @ + 1,
                    !.readErrors = @ + (IF ok THEN 0 ELSE 1),
                    !.readsInOrder = @ /\ vpos = h.reads * BLOCK_SIZE]
    /\ UNCHANGED << caller, devSize, disk, mainVars, exitCode, fd, pos,
                    engVars, result, vfd, out, progress >>
    /\ UNCHANGED << peer, ow, dl >>

\* Lines 403-409: close the read descriptor and return verified.
VeClose ==
    /\ pc = "ve_close"
    /\ vfd' = "closed"
    /\ h' = [h EXCEPT !.roCloses = @ + 1]
    /\ pc' = "ve_ret"
    /\ UNCHANGED << caller, devSize, disk, mainVars, exitCode, fd, pos,
                    engVars, result, vpos, vi, verified, out, progress >>
    /\ UNCHANGED << peer, ow, dl >>

\* ------------------------------------------------ generatePatterns, direct
\* The public method generatePatterns called on one SecureEraser instance,
\* whose member rng (line 46) carries over from call to call.
GenerateCall ==
    /\ pc = "start"
    /\ h.genCalls < MaxGenerateCalls
    /\ \E p \in WipePattern :
         LET g == GeneratePatterns(p, rng) IN
         /\ pattern' = p
         /\ patterns' = g.patterns
         /\ rng' = g.rng
         /\ h' = [h EXCEPT
                    !.genCalls = @ + 1,
                    !.drawn = @ \cup DrawsIn(g.patterns),
                    !.replayed = @ \/ (DrawsIn(g.patterns) \cap h.drawn # {})]
    /\ UNCHANGED << pc, caller, devSize, disk, devicePath, verify,
                    listDevices, hasCallback, exitCode, fd, pos, deviceSize,
                    totalBlocks, pass, bytesWritten, blockCount, result,
                    verVars, out, progress, peer, ow, dl >>

\* -------------------------------------------------------- overwriteDevice
\* src/src/overwrite.cpp line 18: one block, scaled down from 1 MiB.
blockSize == 2

\* Line 59: the stream is flushed every 100 blocks.
FLUSH_EVERY == 100

FillModes == {"ZERO", "ONE", "MIX"}

\* What getFreeSpace may return: the available bytes of the volume at that
\* moment (other processes use the volume too), or 0 when fs::space failed
\* (src/src/utility.cpp lines 72-81).
FreeSpaceReadings == 0 .. MaxFreeSpace

\* Lines 24-30: the fill character of an iteration.
fillCharOf(mode, iter) ==
    IF mode = "ONE" THEN "1"
    ELSE IF mode = "MIX" THEN (IF iter % 2 = 0 THEN "0" ELSE "1")
    ELSE "0"

OwFrame ==
    UNCHANGED << pc, caller, devSize, disk, mainVars, exitCode, fd, pos,
                 engVars, result, verVars, out, progress, h, peer, dl >>

\* overwriteDevice(targetPath, tempFileNameBase, iterations, mode) is called.
OwCall ==
    /\ ow.pc = "idle"
    /\ \E n \in 0 .. MaxIterations, m \in FillModes :
         ow' = [ow EXCEPT !.pc = "for", !.iterations = n, !.mode = m,
                          !.iter = 0]
    /\ OwFrame

\* Lines 20-43 and 81: the loop test, the fill character, the temporary
\* file opened for writing (which creates it), or the return of true.
OwFor ==
    /\ ow.pc = "for"
    /\ IF ow.iter < ow.iterations
       THEN \E ok \in BOOLEAN :
              IF ok
              THEN ow' = [ow EXCEPT
                            !.pc = "space",
                            !.fillChar = fillCharOf(ow.mode, ow.iter),
                            !.outFile = "good",
                            !.files = @ \cup {ow.iter},
                            !.created = Append(@, ow.iter),
                            !.leftBehind = @ \/ ow.files # {}]
              ELSE ow' = [ow EXCEPT
                            !.pc = "done",
                            !.fillChar = fillCharOf(ow.mode, ow.iter),
                            !.outFile = "failed",
                            !.result = "false"]
       ELSE ow' = [ow EXCEPT !.pc = "done", !.result = "true"]
    /\ OwFrame

\* Lines 45-47: the first reading of the free space.
OwSpace ==
    /\ ow.pc = "space"
    /\ \E ok \in BOOLEAN : \E r \in FreeSpaceReadings :
         ow' = [ow EXCEPT
                  !.pc = "while",
                  !.freeSpace = IF ok THEN r ELSE 0,
                  !.blockCount = 0,
                  !.spaceFailed = IF ok THEN @ ELSE @ \cup {ow.iter}]
    /\ OwFrame

\* Lines 52-55: if (!outFile) break.
WriteBroke(streamOk) == ~ streamOk

\* Lines 50-64: the test of the while loop and one iteration of it.
OwWrite ==
    /\ ow.pc = "while"
    /\ IF ow.freeSpace > blockSize
       THEN \E streamOk \in BOOLEAN :
              IF WriteBroke(streamOk)
              THEN ow' = [ow EXCEPT
                            !.pc = "close",
                            !.outFile = "failed",
                            !.writeFailed = @ \cup {ow.iter}]
              ELSE \E ok \in BOOLEAN : \E r \in FreeSpaceReadings :
                     ow' = [ow EXCEPT
                              !.outFile = IF streamOk THEN @ ELSE "failed",
                              !.writeFailed = IF streamOk THEN @
                                              ELSE @ \cup {ow.iter},
                              !.wrote = IF streamOk
                                        THEN @ \cup {<< ow.iter,
                                                        ow.fillChar >>}
                                        ELSE @,
                              !.blockCount = (@ + 1) % FLUSH_EVERY,
                              !.freeSpace = IF ok THEN r ELSE 0,
                              !.spaceFailed = IF ok THEN @
                                              ELSE @ \cup {ow.iter}]
       ELSE ow' = [ow EXCEPT
                     !.pc = "close",
                     !.filled = IF ow.iter \in ow.spaceFailed THEN @
                                ELSE @ \cup {ow.iter}]
    /\ OwFrame

\* Lines 65-80: close the stream, fs::remove the file (an error is only
\* printed), sleep, ++iter.
OwRemove ==
    /\ ow.pc = "close"
    /\ \E removed \in BOOLEAN :
         ow' = [ow EXCEPT
                  !.pc = "for",
                  !.outFile = "closed",
                  !.files = IF removed THEN @ \ {ow.iter} ELSE @,
                  !.ended = @ + 1,
                  !.iter = @ + 1]
    /\ OwFrame

\* ----------------------------------------------- system_connected_drives
DriveNames == {"usb1", "usb2"}

\* The contents of storage-device-list: one line per entry of /media/<user>.
Listings == UNION {[1 .. n -> DriveNames] : n \in 0 .. MaxLines}

DlFrame ==
    UNCHANGED << pc, caller, devSize, disk, mainVars, exitCode, fd, pos,
                 engVars, result, verVars, out, progress, h, peer, ow >>

\* Lines 15-19: the file is opened, i = 0.
DlCall ==
    /\ dl.pc = "idle"
    /\ \E l \in Listings :
         dl' = [dl EXCEPT !.pc = "loop", !.listing = l, !.file = l, !.i = 0]
    /\ DlFrame

\* Variant of LoopContinues that stops at the end of the array.
LoopContinuesInArray(gotLine, i) == gotLine /\ i < ARRAY_LEN

\* Line 20: while (getline(file, str)).
LoopContinues(gotLine, i) == gotLine

\* Lines 20-24: one iteration of the loop, or the return.  A store at an
\* index outside the array is undefined: the memory behind the array is
\* overwritten and the function goes on, or the process is stopped.
DlLoop ==
    /\ dl.pc = "loop"
    /\ IF LoopContinues(dl.file # << >>, dl.i)
       THEN IF dl.i < ARRAY_LEN
            THEN dl' = [dl EXCEPT
                          !.storagedeviceslist[dl.i] = Head(dl.file),
                          !.file = Tail(@),
                          !.stored = @ + 1,
                          !.i = @ + 1]
            ELSE \E outcome \in {"loop", "crashed"} :
                   dl' = [dl EXCEPT
                            !.pc = outcome,
                            !.pastEnd = TRUE,
                            !.file = Tail(@),
                            !.stored = @ + 1,
                            !.i = @ + 1]
       ELSE dl' = [dl EXCEPT !.pc = "done"]
    /\ DlFrame

\* ------------------------------------------------------- a second session
\* Another process runs secureErase on /dev/sdb.  Its open is the one of
\* line 254: O_RDWR | O_SYNC, no O_EXCL and no lock, so the kernel grants it
\* whether or not this session holds the device open.
PeerOpen ==
    /\ peer.fd = "closed" /\ ~ peer.ran
    /\ pc \notin {"start", "exit"}
    /\ peer' = [peer EXCEPT !.fd = "open", !.pos = 0, !.ran = TRUE]
    /\ UNCHANGED << pc, caller, devSize, disk, mainVars, exitCode, fd, pos,
                    engVars, result, verVars, out, progress, h, ow, dl >>

\* Lines 298-323 in the other process: one block at its own file offset.
PeerWrite ==
    /\ peer.fd = "open"
    /\ peer.pos < Len(disk)
    /\ LET writeSize == WriteSize(Len(disk), peer.pos)
       IN  /\ disk' = [k \in 1 .. Len(disk) |->
                         IF k > peer.pos /\ k <= peer.pos + writeSize
                         THEN PEER_DATA ELSE disk[k]]
           /\ peer' = [peer EXCEPT
                         !.pos = @ + writeSize,
                         !.interleaved =
                             @ \/ (fd = "open" /\ h.writes > 0)]
    /\ UNCHANGED << pc, caller, devSize, mainVars, exitCode, fd, pos,
                    engVars, result, verVars, out, progress, h, ow, dl >>

\* Line 354 in the other process.
PeerClose ==
    /\ peer.fd = "open"
    /\ peer' = [peer EXCEPT !.fd = "closed"]
    /\ UNCHANGED << pc, caller, devSize, disk, mainVars, exitCode, fd, pos,
                    engVars, result, verVars, out, progress, h, ow, dl >>

\* ---------------------------------------------------------- specification
\* The program: every run starts in main.
Next ==
    \/ MainParseArgs
    \/ MainSelectDevice
    \/ MainConfirm
    \/ Open
    \/ Ioctl
    \/ Seek
    \/ Write
    \/ PassEnd
    \/ VeOpen
    \/ VeRead
    \/ VeClose
    \/ AfterVerify
    \/ End
    \/ MainAfterErase

Spec == Init /\ [][Next]_vars

\* The class as a library: secureErase may also be called without main.
NextApi == Next \/ ApiCall

SpecApi == Init /\ [][NextApi]_vars

\* Runs long enough for the progress callback: one device whose last block
\* is partial and whose block count passes the cadence of line 326.
ProgressSizes == {PROGRESS_EVERY * BLOCK_SIZE + 1}

ProgressArgv ==
    { << "-d", "/dev/sdb", "-p", "zeros", "-v" >>,
      << "-d", "/dev/sdb", "-p", "dod3" >>,
      << "-d", "/dev/sda" >> }

ProgressShortWrites == 0

InitProgress == InitOf(ProgressSizes)

MainParseArgsProgress == MainParseArgsOf(ProgressArgv)

WriteProgress == WriteOf(ProgressShortWrites)

NextProgress ==
    \/ MainParseArgsProgress
    \/ MainSelectDevice
    \/ MainConfirm
    \/ Open
    \/ Ioctl
    \/ Seek
    \/ WriteProgress
    \/ PassEnd
    \/ VeOpen
    \/ VeRead
    \/ VeClose
    \/ AfterVerify
    \/ End
    \/ MainAfterErase

SpecProgress == InitProgress /\ [][NextProgress]_vars

\* Two sessions on one device.
TwoSizes == {BLOCK_SIZE + 1}

TwoArgv ==
    { << "-d", "/dev/sdb", "-p", "ones", "-v" >>,
      << "-d", "/dev/sdb", "-p", "dod3" >> }

TwoShortWrites == 0

InitTwo == InitOf(TwoSizes)

MainParseArgsTwo == MainParseArgsOf(TwoArgv)

WriteTwo == WriteOf(TwoShortWrites)

NextTwo ==
    \/ MainParseArgsTwo
    \/ MainSelectDevice
    \/ MainConfirm
    \/ Open
    \/ Ioctl
    \/ Seek
    \/ WriteTwo
    \/ PassEnd
    \/ VeOpen
    \/ VeRead
    \/ VeClose
    \/ AfterVerify
    \/ End
    \/ MainAfterErase
    \/ PeerOpen
    \/ PeerWrite
    \/ PeerClose

SpecTwo == InitTwo /\ [][NextTwo]_vars

\* Runs in which the device may return short as often as it likes, with
\* every step of the program eventually taken.  On a device of one byte
\* every write that is not the last one of its pass is a short write.
LiveSizes == {1}

LiveArgv ==
    { << "-d", "/dev/sdb" >>,
      << "-d", "/dev/sdb", "-p", "ones", "-v" >> }

InitLive == InitOf(LiveSizes)

MainParseArgsLive == MainParseArgsOf(LiveArgv)

WriteLive == WriteOf(HCap + 1)

NextLive ==
    \/ MainParseArgsLive
    \/ MainSelectDevice
    \/ MainConfirm
    \/ Open
    \/ Ioctl
    \/ Seek
    \/ WriteLive
    \/ PassEnd
    \/ VeOpen
    \/ VeRead
    \/ VeClose
    \/ AfterVerify
    \/ End
    \/ MainAfterErase

SpecLive == InitLive /\ [][NextLive]_vars /\ WF_vars(NextLive)

\* The pattern generator alone, called several times on one instance.
NextGen == GenerateCall

SpecGen == Init /\ [][NextGen]_vars

\* The free-space fill alone, the wipe tool not running.
InitOverwrite == InitOf({0})

NextOverwrite ==
    \/ OwCall
    \/ OwFor
    \/ OwSpace
    \/ OwWrite
    \/ OwRemove

SpecOverwrite == InitOverwrite /\ [][NextOverwrite]_vars

\* The same with every step of the function eventually taken.
SpecOverwriteLive ==
    InitOverwrite /\ [][NextOverwrite]_vars /\ WF_vars(NextOverwrite)

\* The legacy drive listing alone.
NextList ==
    \/ DlCall
    \/ DlLoop

SpecList == InitOverwrite /\ [][NextList]_vars

\* ------------------------------------------------------------ properties
Returned == result # "none"

CeilDiv(a, b) == (a + b - 1) \div b

IsMounted(path) ==
    \E k \in 1 .. Len(ListDevices(devSize)) :
        /\ ListDevices(devSize)[k].path = path
        /\ ListDevices(devSize)[k].isMounted

SizeReported == patterns # << >>

\* C1: at the end of every pass each byte 0..S-1 of the device has been
\* written exactly once in that pass, by writes that each began where the
\* previous one ended, starting at offset 0; a successful run has ended
\* every pass of the scheme that way.
C1_EachByteOncePerPass ==
    /\ h.ascending
    /\ pc = "passEnd" =>
          /\ Len(h.cover) = deviceSize
          /\ \A k \in 1 .. deviceSize : h.cover[k] = 1
    /\ result = "true" =>
          /\ Len(h.finished) = Len(patterns)
          /\ \A k \in 1 .. deviceSize : h.cover[k] = 1

\* A three-pass run over a 2.5-block device that succeeded although one
\* write was short.
C1_Witness ==
    /\ result = "true" /\ deviceSize = 5 /\ Len(patterns) = 3
    /\ h.shortWrites = 1

\* C2: once a write has returned fewer bytes than requested, the run has
\* failed: no further write is issued, the result is failure and the
\* descriptor has been closed exactly once.
C2_ShortWriteIsFatal ==
    h.shortWrites > 0 =>
        /\ h.afterShort = 0
        /\ result = "false"
        /\ h.closes = 1
        /\ fd = "closed"

\* C3: a wipe of a device that is mounted never opens the device
\* read-write, never writes and never succeeds, however the wipe was
\* invoked.
C3_MountedNeverOpened ==
    IsMounted(devicePath) =>
        /\ h.rwOpens = 0
        /\ fd = "none"
        /\ h.writes = 0
        /\ result # "true"

\* C4: a completed pass over a device of S > 0 bytes has issued exactly
\* ceil(S / B) writes; each but the last asked for B bytes and the last
\* for S mod B bytes, or B when S is a multiple of B.
C4_WritesPerPass ==
    [][ /\ h'.writes = h.writes + 1 =>
             h'.lastReq =
                 IF blockCount + 1 < CeilDiv(deviceSize, BLOCK_SIZE)
                 THEN BLOCK_SIZE
                 ELSE IF blockCount + 1 = CeilDiv(deviceSize, BLOCK_SIZE)
                 THEN (IF deviceSize % BLOCK_SIZE = 0 THEN BLOCK_SIZE
                       ELSE deviceSize % BLOCK_SIZE)
                 ELSE 0 - 1
        /\ (pc = "write" /\ pc' = "passEnd") =>
             blockCount' = CeilDiv(deviceSize, BLOCK_SIZE) ]_vars

\* C5: the bytes written in the current pass never exceed the device size
\* and no write asks for bytes beyond it: offset + length <= deviceSize.
C5_NeverPastDeviceSize ==
    /\ bytesWritten <= deviceSize
    /\ ~ h.pastEnd
    /\ h.writes > 0 => h.lastOff + h.lastReq <= deviceSize

\* The truncated last chunk of a 2.5-block device has been written.
C5_Witness ==
    /\ deviceSize = 5 /\ bytesWritten = 5
    /\ h.lastOff = 4 /\ h.lastReq = 1 /\ h.lastRet = 1

\* C6: passes begin and end in the order 0, 1, 2, ... of the scheme, a
\* write always belongs to the pass after the last finished one, a pass
\* ends only when the whole device is written, a successful run has ended
\* every pass once, and verifyErase is called at most once, only with
\* verify set and only after the last pass has ended.
C6_PassOrderAndVerify ==
    /\ h.orderOK
    /\ \A k \in 1 .. Len(h.started) : h.started[k] = k - 1
    /\ \A k \in 1 .. Len(h.finished) : h.finished[k] = k - 1
    /\ Len(h.finished) <= Len(h.started)
    /\ Len(h.started) <= Len(h.finished) + 1
    /\ Len(h.started) <= Len(patterns)
    /\ pc = "passEnd" => bytesWritten = deviceSize
    /\ result = "true" => Len(h.finished) = Len(patterns)
    /\ h.verifyCalls <= 1
    /\ ~ h.verifyEarly
    /\ h.verifyCalls = 1 => (verify /\ Len(h.finished) = Len(patterns))
    /\ pc \in {"ve_open", "ve_read", "ve_close", "ve_ret"} =>
          h.verifyCalls = 1

\* A nine-pass run with verification that succeeded.
C6_Witness ==
    /\ result = "true" /\ Len(patterns) = 9 /\ deviceSize = 5
    /\ h.verifyCalls = 1 /\ h.writes = 27

\* C7: the read-write descriptor is closed only when open, never used
\* after its close, closed exactly once by the time secureErase has
\* returned if it was opened, and never closed if it was not; no
\* descriptor is open once secureErase has returned.
C7_HandleClosedOnce ==
    /\ h.rwOpens <= 1
    /\ h.closes <= h.rwOpens
    /\ ~ h.closedNotOpen
    /\ ~ h.useAfterClose
    /\ h.rwOpens = 0 => (fd = "none" /\ h.closes = 0)
    /\ (Returned /\ h.rwOpens = 1) => (fd = "closed" /\ h.closes = 1)
    /\ fd = "closed" => Returned
    /\ pc \in {"ret", "exit"} => fd # "open"
    /\ Returned => (vfd # "open" /\ h.roCloses = h.roOpens)

\* The seek of the second pass failed and the descriptor was closed.
C7_Witness ==
    /\ Returned /\ h.seeks = 2 /\ h.ioFailed /\ h.lastRet >= 0
    /\ h.closes = 1 /\ fd = "closed"

\* C8: when the opened device reports 0 bytes the run fails: no pass
\* begins, verifyErase is not called, and the run does not return success.
C8_EmptyDeviceFails ==
    (SizeReported /\ deviceSize = 0) =>
        /\ h.started = << >>
        /\ h.verifyCalls = 0
        /\ result # "true"
        /\ Returned => (result = "false" /\ h.closes = 1)

\* C9: after the first failed write or seek the run has returned failure:
\* no further seek or write was issued, no later pass began, verifyErase
\* was not called.
C9_IoErrorAborts ==
    h.ioFailed =>
        /\ result = "false"
        /\ pc \in {"ret", "exit"}
        /\ h.opsAfterFail = 0
        /\ h.verifyCalls = 0
        /\ Len(h.started) <= pass + 1
        /\ fd = "closed"

\* A write of the second pass failed.
C9_Witness ==
    /\ h.ioFailed /\ h.lastRet = 0 - 1 /\ pass = 1 /\ h.writes = 4
    /\ pc = "exit"

\* C10: a run whose verification failed still returns success with the
\* descriptor closed and the warning printed, and no failed run has
\* called verifyErase.
C10_VerifyFailureIsWarning ==
    /\ (h.verifyCalls = 1 /\ ~ verified /\ pc \in {"end", "ret", "exit"}) =>
          /\ out # << >>
          /\ out[Len(out)] = "Warning: Verification failed!"
          /\ Returned => (result = "true" /\ fd = "closed" /\ h.closes = 1)
    /\ result = "false" => h.verifyCalls = 0
    /\ (exitCode = 1 /\ caller = "main" /\ h.rwOpens = 1) =>
          h.verifyCalls = 0

\* A full sample block was read, did not match, and the run succeeded.
C10_Witness ==
    /\ result = "true" /\ h.verifyCalls = 1 /\ ~ verified
    /\ vfd = "closed" /\ vpos = (vi + 1) * BLOCK_SIZE

\* The documented number of passes of each scheme.
PassCount(p) ==
    CASE p = "ZEROS" -> 1
      [] p = "ONES" -> 1
      [] p = "RANDOM" -> 1
      [] p = "DOD_3PASS" -> 3
      [] p = "GUTMANN_35" -> 9

\* C11: the generated sequence is non-empty, has the documented length
\* for the scheme, every buffer is one block long, and a successful run
\* has begun and ended exactly that many passes.
C11_PassCounts ==
    /\ SizeReported =>
          /\ Len(patterns) >= 1
          /\ Len(patterns) = PassCount(pattern)
          /\ \A i \in 1 .. Len(patterns) : Len(patterns[i]) = BLOCK_SIZE
    /\ result = "true" =>
          /\ Len(h.started) = PassCount(pattern)
          /\ Len(h.finished) = PassCount(pattern)

\* A Gutmann run that succeeded after its nine passes.
C11_Witness ==
    /\ result = "true" /\ pattern = "GUTMANN_35" /\ Len(h.finished) = 9
    /\ deviceSize = 3

\* A byte that came out of the generator rather than a fixed constant.
IsRandomByte(b) == b >= 256

ConstantBuffer(buf, b) ==
    /\ Len(buf) = BLOCK_SIZE
    /\ \A k \in 1 .. BLOCK_SIZE : buf[k] = b

RandomlyFilled(buf) ==
    /\ Len(buf) = BLOCK_SIZE
    /\ \A k \in 1 .. BLOCK_SIZE : IsRandomByte(buf[k])

\* C12: the buffers are, in order: Zeros [0x00]; Ones [0xFF]; DoD3Pass
\* [0x00, 0xFF, random]; Gutmann35 [random, random, random, random, 0x55,
\* 0xAA, 0x92, 0x49, 0x24]; every byte of a fixed buffer is its constant.
C12_FixedPatterns ==
    SizeReported =>
        /\ pattern = "ZEROS" => ConstantBuffer(patterns[1], 0)
        /\ pattern = "ONES" => ConstantBuffer(patterns[1], 15 * 16 + 15)
        /\ pattern = "DOD_3PASS" =>
              /\ ConstantBuffer(patterns[1], 0)
              /\ ConstantBuffer(patterns[2], 15 * 16 + 15)
              /\ RandomlyFilled(patterns[3])
        /\ pattern = "GUTMANN_35" =>
              /\ \A i \in 1 .. 4 : RandomlyFilled(patterns[i])
              /\ ConstantBuffer(patterns[5], 5 * 16 + 5)
              /\ ConstantBuffer(patterns[6], 10 * 16 + 10)
              /\ ConstantBuffer(patterns[7], 9 * 16 + 2)
              /\ ConstantBuffer(patterns[8], 4 * 16 + 9)
              /\ ConstantBuffer(patterns[9], 2 * 16 + 4)

\* The last Gutmann pass has left 0x24 in every byte of the device.
C12_Witness ==
    /\ pattern = "GUTMANN_35" /\ result = "true" /\ deviceSize = 5
    /\ \A k \in 1 .. 5 : disk[k] = 36

\* The byte the expected pattern puts at device offset k - 1.
ExpectedAt(k) == patterns[pass + 1][((k - 1) % BLOCK_SIZE) + 1]

\* C13: verifyErase returns true when every byte of the device equals
\* the expected pattern (and no read or open failed), returns false when
\* a byte of the first 10 blocks differs, reads block after block from
\* offset 0, reads no further after a mismatch or a failed read, and
\* reads at most 10 blocks.
C13_VerifierSample ==
    /\ (/\ pc = "ve_ret"
        /\ Len(disk) >= 1
        /\ \A k \in 1 .. Len(disk) : disk[k] = ExpectedAt(k)
        /\ ~ h.roOpenFailed
        /\ h.readErrors = 0) => verified
    /\ (/\ pc = "ve_ret"
        /\ \E k \in 1 .. Min(Len(disk), 10 * BLOCK_SIZE) :
              disk[k] # ExpectedAt(k)) => ~ verified
    /\ h.readsInOrder
    /\ h.reads <= 10
    /\ pc = "ve_read" => (verified /\ h.readErrors = 0)

\* The value last handed to the progress callback is 100 percent.
LastProgressIsHundred ==
    /\ progress.calls > 0
    /\ progress.last[1] = 100 * progress.last[2]

\* C14: a successful run of a device that has bytes, with a progress
\* callback, has handed the callback 100 percent as its last value.
C14_ProgressReachesHundred ==
    (result = "true" /\ hasCallback /\ deviceSize > 0) =>
        LastProgressIsHundred

\* C15: the progress callback is called only by a step of the write loop
\* that wrote a block, exactly when the number of blocks written in the
\* current pass is a positive multiple of 100, and the value it is handed
\* is (completedPasses * totalBlocks + blocksInCurrentPass) /
\* (totalPasses * totalBlocks) * 100 with totalBlocks = ceil(S / B).
C15_ProgressCadence ==
    [][LET called == progress' # progress
           wrote == pc = "write" /\ blockCount' = blockCount + 1
           tb == CeilDiv(deviceSize, BLOCK_SIZE)
       IN  /\ called =>
                 /\ wrote
                 /\ blockCount' > 0
                 /\ blockCount' % 100 = 0
                 /\ progress'.calls = progress.calls + 1
                 /\ progress'.at = << Len(h.finished), blockCount' >>
                 /\ progress'.last[2] > 0
                 /\ progress'.last[1] * (PassCount(pattern) * tb) =
                        (Len(h.finished) * tb + blockCount') * 100
                            * progress'.last[2]
           /\ (wrote /\ hasCallback /\ blockCount' % 100 = 0) => called
      ]_vars

\* The callback was called at block 100 of the third pass of DoD 3-pass.
C15_Witness ==
    /\ progress.calls = 3
    /\ progress.at = << 2, 100 >>
    /\ pattern = "DOD_3PASS"
    /\ totalBlocks = 101

\* C16: while this session holds /dev/sdb open read-write no other session
\* holds it open, and no write of another session falls between the writes
\* of this one.
C16_ExclusiveHandle ==
    /\ ~ (fd = "open" /\ devicePath = "/dev/sdb" /\ peer.fd = "open")
    /\ ~ peer.interleaved

\* The specific error lines of a wipe run: open, size query, I/O error of
\* a seek or of a write, mounted device.
ErrorKinds ==
    {"Error: Cannot open device", "Error: Cannot get device size",
     "Error: Cannot seek to beginning", "Error writing to device",
     "Error: Device is mounted"}

Printed(msg) == \E k \in 1 .. Len(out) : out[k] = msg

ErrorCount == Cardinality({k \in 1 .. Len(out) : out[k] \in ErrorKinds})

FailedRun == result = "false" \/ h.exitAt = "mounted"

\* C17: a failed wipe run (secureErase returned false, or main refused a
\* mounted device) has printed exactly one specific error line, the one of
\* what failed; a successful run has printed none; the line for a mounted
\* device and the line for a failed size query differ.
C17_OneErrorKind ==
    /\ FailedRun => ErrorCount = 1
    /\ result = "true" => ErrorCount = 0
    /\ h.openFailed => Printed("Error: Cannot open device")
    /\ h.sizeQueryFailed => Printed("Error: Cannot get device size")
    /\ h.ioFailed => (\/ Printed("Error: Cannot seek to beginning")
                      \/ Printed("Error writing to device"))
    /\ h.exitAt = "mounted" => Printed("Error: Device is mounted")
    /\ FailedRun =>
          (\/ h.openFailed \/ h.sizeQueryFailed \/ h.ioFailed
           \/ h.exitAt = "mounted")

\* A write of a run failed and main has exited.
C17_Witness ==
    /\ pc = "exit" /\ h.ioFailed /\ h.lastRet = 0 - 1 /\ h.writes >= 2
    /\ ErrorCount = 1

\* C18: when the size query fails after the open, secureErase returns
\* false with the size-query error: patterns were not generated, no pass
\* began, no seek and no write was issued, verifyErase was not called, and
\* the descriptor was closed exactly once.  When the open fails it returns
\* false with the open error, and no size query, seek or write was issued.
C18_SetupFailures ==
    /\ h.sizeQueryFailed =>
          /\ result = "false"
          /\ Printed("Error: Cannot get device size")
          /\ h.rwOpens = 1 /\ h.sizeQueries = 1
          /\ patterns = << >> /\ h.started = << >>
          /\ h.seeks = 0 /\ h.writes = 0 /\ h.verifyCalls = 0
          /\ h.closes = 1 /\ fd = "closed" /\ ~ h.closedNotOpen
    /\ h.openFailed =>
          /\ result = "false"
          /\ Printed("Error: Cannot open device")
          /\ h.rwOpens = 0 /\ h.sizeQueries = 0
          /\ h.seeks = 0 /\ h.writes = 0 /\ h.verifyCalls = 0
          /\ h.closes = 0

\* The size query of an opened device failed and main has exited.
C18_Witness ==
    /\ pc = "exit" /\ h.sizeQueryFailed /\ h.rwOpens = 1 /\ h.closes = 1
    /\ devicePath = "/dev/sdb"

\* C19: main returns 0 exactly when the wipe succeeded, the user declined
\* the prompt, or --help / --list was served, and 1 otherwise: for too few
\* arguments, an unknown argument, an invalid pattern name, a missing
\* device path, a device that is not found or is mounted, and for every
\* failed open, size query, seek or write.  A verification mismatch alone
\* leaves the exit code 0.
C19_ExitCode ==
    (pc = "exit" /\ caller = "main") =>
        /\ exitCode \in {0, 1}
        /\ exitCode = 0 <=>
              (\/ h.exitAt \in {"help", "list", "cancel"}
               \/ (h.exitAt = "erase" /\ result = "true"))
        /\ h.exitAt \in {"usage", "Unknown argument", "Invalid pattern",
                          "nopath", "notfound", "mounted"} => exitCode = 1
        /\ (h.openFailed \/ h.sizeQueryFailed \/ h.ioFailed) => exitCode = 1
        /\ (/\ h.verifyCalls = 1 /\ ~ verified
            /\ ~ (h.openFailed \/ h.sizeQueryFailed \/ h.ioFailed)) =>
                exitCode = 0

\* A run whose verification found a mismatch has exited with 0.
C19_Witness ==
    /\ pc = "exit" /\ caller = "main" /\ h.exitAt = "erase"
    /\ h.verifyCalls = 1 /\ ~ verified /\ exitCode = 0

\* C20: every run ends: whatever the write calls return, main eventually
\* exits, with the descriptor closed unless it was never opened.
C20_Terminates == <>(pc = "exit" /\ fd # "open")

\* C21: the values handed to the progress callback in one run increase
\* strictly, each lies in (0, 100], and the block count of the current
\* pass that enters the formula is at most totalBlocks = ceil(S / B).
C21_ProgressInRange ==
    progress.calls > 0 =>
        /\ progress.increasing
        /\ progress.last[1] > 0
        /\ progress.last[1] <= 100 * progress.last[2]
        /\ progress.at[2] <= CeilDiv(deviceSize, BLOCK_SIZE)

\* C22: run from main, the device is opened read-write and written only
\* after, in this order, devicePath was found in the device list, that
\* device was reported not mounted, and the operator typed 'y' or 'Y' at
\* the prompt; after any other answer main exits with nothing opened.
C22_GatedWrite ==
    caller = "main" =>
        /\ (h.rwOpens > 0 \/ h.writes > 0) =>
              /\ h.gate = << "found", "unmounted", "confirmed" >>
              /\ FindDevice(ListDevices(devSize), devicePath, 1) # 0
              /\ ~ IsMounted(devicePath)
              /\ h.userConfirmed
        /\ (pc = "exit" /\ h.gate = << "found", "unmounted" >>) =>
              /\ h.rwOpens = 0 /\ h.writes = 0 /\ ~ h.openFailed
              /\ ~ h.userConfirmed

VerifierPcs == {"ve_open", "ve_read", "ve_close"}

\* What holds of the two descriptors around a call of verifyErase.
VerifierHandles ==
    /\ pc \in VerifierPcs \cup {"ve_ret"} =>
          (fd = "open" /\ h.closes = 0)
    /\ pc = "ve_read" => vfd = "open"
    /\ h.roOpens <= 1 /\ h.roCloses <= h.roOpens
    /\ h.roOpenFailed => (h.roOpens = 0 /\ h.roCloses = 0)
    /\ (h.verifyCalls = 1 /\ pc \notin VerifierPcs) =>
          (h.roCloses = h.roOpens /\ vfd # "open")
    /\ (Returned /\ h.verifyCalls = 1) =>
          (h.closes = 1 /\ fd = "closed" /\ ~ h.closedNotOpen)

\* C23: a step of verifyErase works on its own read-only descriptor: it
\* writes nothing, and leaves the device contents and the read-write
\* descriptor with its file offset as they were; the read descriptor is
\* closed exactly once on every return path after a successful open and
\* never after a failed one; the read-write descriptor stays open through
\* the verification and is closed exactly once afterwards.
C23_VerifierFrame ==
    [][/\ pc \in VerifierPcs =>
             /\ fd' = fd /\ pos' = pos /\ disk' = disk
             /\ h'.writes = h.writes /\ h'.seeks = h.seeks
             /\ h'.closes = h.closes /\ h'.rwOpens = h.rwOpens
       /\ VerifierHandles'
      ]_vars

\* A read of the verifier failed, both descriptors were closed once, and
\* secureErase has returned.
C23_Witness ==
    /\ Returned /\ h.verifyCalls = 1 /\ h.readErrors = 1
    /\ h.roCloses = 1 /\ h.closes = 1

\* The random buffers among ps, by position.
RandomPasses(ps) == {i \in 1 .. Len(ps) : RandomlyFilled(ps[i])}

\* C24: every random buffer of a generated scheme holds generator outputs
\* of its own: no output is used twice, within a buffer or by two buffers,
\* the generator has advanced by one block of outputs per random buffer,
\* and no call of generatePatterns used an output that an earlier call on
\* the same instance had used.
C24_FreshDraws ==
    h.genCalls > 0 =>
        /\ Cardinality(DrawsIn(patterns)) =
               BLOCK_SIZE * Cardinality(RandomPasses(patterns))
        /\ \A i, j \in RandomPasses(patterns) :
               i # j => \A k, l \in 1 .. BLOCK_SIZE :
                           patterns[i][k] # patterns[j][l]
        /\ ~ h.replayed
        /\ Cardinality(h.drawn) = rng
        /\ DrawsIn(patterns) \subseteq h.drawn

\* Gutmann35 was generated after DoD3Pass on the same instance.
C24_Witness ==
    /\ h.genCalls = 2 /\ pattern = "GUTMANN_35"
    /\ Cardinality(RandomPasses(patterns)) = 4
    /\ rng = 5 * BLOCK_SIZE

\* The fill character the documentation gives an iteration.
ExpectedChar(mode, it) ==
    CASE mode = "ZERO" -> "0"
      [] mode = "ONE" -> "1"
      [] mode = "MIX" -> IF it % 2 = 0 THEN "0" ELSE "1"

\* C25: overwriteDevice makes one temporary file per iteration, in the
\* order 0 .. iterations-1, writes only blocks of that iteration's fill
\* character, and has deleted the file before the next iteration starts;
\* when it returns true no temporary file remains and every iteration
\* wrote until the free space was at most one block; it returns false
\* when an iteration could not write its file.
C25_FillAndDelete ==
    /\ \A k \in 1 .. Len(ow.created) : ow.created[k] = k - 1
    /\ \A w \in ow.wrote : w[2] = ExpectedChar(ow.mode, w[1])
    /\ ~ ow.leftBehind
    /\ ow.result = "true" =>
          /\ ow.files = {}
          /\ ow.filled = 0 .. (ow.iterations - 1)
          /\ Len(ow.created) = ow.iterations
    /\ (ow.pc = "done" /\ ow.writeFailed # {}) => ow.result = "false"

\* When overwriteDevice has returned, it has carried through all its
\* iterations, or fewer after a failed open.
OwReturnedRight ==
    ow.pc = "done" =>
        \/ ow.result = "true" /\ ow.ended = ow.iterations
        \/ /\ ow.result = "false" /\ ow.outFile = "failed"
           /\ ow.ended < ow.iterations

\* C26: whatever the free-space readings and the writes return,
\* overwriteDevice returns, after exactly `iterations` iterations or
\* earlier when a file could not be opened.
C26_FillTerminates == <>(ow.pc = "done") /\ []OwReturnedRight

\* C27: system_connected_drives stores line k of the listing at index k-1
\* of an array of 4 entries, whatever k is: with at most 4 lines every
\* store is inside the array, with 5 or more lines an index of 4 or more
\* is reached and a store goes behind the array.
C27_ArrayOverrun ==
    /\ dl.pastEnd <=> dl.stored > 4
    /\ \A k \in 1 .. dl.stored :
          k <= 4 => dl.storagedeviceslist[k - 1] = dl.listing[k]
    /\ (dl.pc = "done" /\ Len(dl.listing) <= 4) =>
          (~ dl.pastEnd /\ dl.i = Len(dl.listing) /\ dl.i <= 4)
    /\ (dl.pc \in {"done", "crashed"} /\ Len(dl.listing) >= 5) =>
          (dl.pastEnd /\ dl.i >= 5)

\* A listing of five lines was read to its end.
C27_Witness ==
    /\ dl.pc = "done" /\ Len(dl.listing) = 5 /\ dl.i = 5 /\ dl.pastEnd

====
